---- MODULE Spec2Model ----
(***************************************************************************)
(* Model of pulsar-client-cpp/lib/auth/AuthTuya.{h,cc}: the credential     *)
(* holder AuthDataTuya and the provider AuthTuya with its three create     *)
(* overloads.  Objects live in a heap; the AuthenticationDataPtr handles   *)
(* (the provider's member authDataTuya_ and the callers' output slots) are *)
(* copyable owning pointers, so a holder lives as long as a handle to it.  *)
(***************************************************************************)
EXTENDS Integers, FiniteSets, Sequences, TLC

VARIABLES
    dataObjs,    \* live AuthDataTuya objects: holder id -> its three fields
    providers,   \* live AuthTuya objects: provider id -> [authDataTuya_]
    slots,       \* the callers' AuthenticationDataPtr output slots
    params,      \* the caller's ParamMap variable, passed by reference
    nalloc,      \* number of create() calls that allocated so far
    built,       \* history: provider id -> holder its constructor was given
    origin,      \* history: n -> the <<id, key>> the n-th allocation was given
    filledBy,    \* history: slot -> the provider whose getAuthData filled it
    names,       \* history: every string getAuthMethodName() has returned
    mapHist,     \* history: the previous create(params) on the current map
    lastCall     \* the last operation, its arguments and what it returned

vars == <<dataObjs, providers, slots, params, nalloc, built, origin, filledBy,
          names, mapHist, lastCall>>

\* ------------------------------------------------------------- bounds
MaxAlloc == 2       \* create() calls that allocate in one behaviour
MaxSegs == 2        \* key:value segments in a parameter string

\* ------------------------------------------------------- input domains
AccessIds == {"", "abc"}
AccessKeys == {"", "xyz"}
Strings == AccessIds \cup AccessKeys
Keys == {"accessId", "accessKey", "other"}
Slots == {"out1", "out2"}
Null == 0
EmptyMap == <<>>
NoHist == [known |-> FALSE]

\* The ParamMaps a caller may hold: any subset of Keys, with string values.
ValuesOf(k) ==
    IF k = "accessId" THEN AccessIds
    ELSE IF k = "accessKey" THEN AccessKeys
    ELSE {"abc"}

ParamMaps ==
    UNION {{m \in [D -> Strings] : \A k \in D : m[k] \in ValuesOf(k)} :
           D \in SUBSET Keys}

\* Parameter strings, as the sequence of their key:value segments.
Segments ==
    {<<"accessId", "abc">>, <<"accessId", "">>, <<"accessKey", "xyz">>,
     <<"other", "abc">>}

RECURSIVE SeqsUpTo(_)
SeqsUpTo(n) ==
    IF n = 0 THEN {<<>>}
    ELSE LET shorter == SeqsUpTo(n - 1)
         IN  shorter \cup {Append(s, g) : s \in {t \in shorter : Len(t) = n - 1},
                                         g \in Segments}

ParamStrings == SeqsUpTo(MaxSegs)

\* ------------------------------------------------------- AuthDataTuya
CommandTemplate == "{\"username\":\"\",\"password\":\"\"}"

\* Faulty variants of the constructor: the two fields assigned crosswise, and
\* the command payload filled in from the credentials.
AuthDataTuya_swapped(id, key) ==
    [accessId_ |-> key, accessKey_ |-> id, commandData |-> CommandTemplate]

AuthDataTuya_payloadFromId(id, key) ==
    [accessId_ |-> id, accessKey_ |-> key,
     commandData |-> IF id = "" THEN CommandTemplate ELSE id]

\* AuthDataTuya::AuthDataTuya(id, key)
AuthDataTuya(id, key) ==
    [accessId_ |-> id, accessKey_ |-> key, commandData |-> CommandTemplate]

\* Faulty variant: the HTTP flag answering like the provider flag.
hasDataForHttp_true(d) == TRUE

hasDataForHttp(d) == FALSE

hasDataForTuya(d) == TRUE

getTuyaAccessId(d) == d.accessId_

getTuyaAccessKey(d) == d.accessKey_

getCommandData(d) == d.commandData

hasDataFromCommand(d) == TRUE

\* Faulty variant: the member function used as a setter.
AuthenticationDataProvider_assigns(d, id, key) ==
    [d EXCEPT !.accessId_ = id, !.accessKey_ = key]

\* void AuthDataTuya::AuthenticationDataProvider(id, key) {}: the object after
\* the call.
AuthenticationDataProvider(d, id, key) == d

\* ----------------------------------------------------------- AuthTuya
\* Faulty variant: the constructor not keeping the handle it is given.
AuthTuya_notStored(authDataTuya) == [authDataTuya_ |-> Null]

\* AuthTuya::AuthTuya(authDataTuya) { authDataTuya_ = authDataTuya; }
AuthTuya(authDataTuya) == [authDataTuya_ |-> authDataTuya]

\* Faulty variant: a method name that differs between instances.
getAuthMethodName_perInstance(a) ==
    IF a.authDataTuya_ = 1 THEN "auth1" ELSE "tuya"

getAuthMethodName(a) == "auth1"

\* Faulty variant: success reported without assigning the held handle.
getAuthData_noAssign(a) == [authDataContent |-> Null, result |-> "ResultOk"]

\* AuthTuya::getAuthData: the value assigned to the output slot and the Result.
getAuthData(a) == [authDataContent |-> a.authDataTuya_, result |-> "ResultOk"]

\* ------------------------------------------------ handles and lifetime
\* Number of AuthenticationDataPtr handles that point at holder h.
UseCount(h, provs, sl) ==
    Cardinality({p \in DOMAIN provs : provs[p].authDataTuya_ = h})
    + Cardinality({s \in DOMAIN sl : sl[s] = h})

\* The heap after handles were dropped: a holder no handle points at is deleted.
Release(objs, provs, sl) ==
    [h \in {x \in DOMAIN objs : UseCount(x, provs, sl) > 0} |-> objs[h]]

\* -------------------------------------------------------- ParamMap use
\* std::map operator[]: the map after m[k], which inserts "" for a missing key.
Subscripted(m, k) == IF k \in DOMAIN m THEN m ELSE m @@ (k :> "")

\* Faulty variants: the map left as it was, and both arguments read from the
\* same key.
ParamsAfterCreate_untouched(m) == m

CreateArgs_sameKey(m) ==
    <<Subscripted(m, "accessKey")["accessKey"], Subscripted(m, "accessKey")["accessKey"]>>

\* create(ParamMap&): the caller's map after params["accessId"] and
\* params["accessKey"] were evaluated.
ParamsAfterCreate(m) == Subscripted(Subscripted(m, "accessId"), "accessKey")

\* create(ParamMap&): the <<id, key>> forwarded to create(id, key).
CreateArgs(m) ==
    <<Subscripted(m, "accessId")["accessId"], Subscripted(m, "accessKey")["accessKey"]>>

\* parseDefaultFormatAuthParams: the map of a string's segments, a later
\* segment replacing an earlier one with the same key.
RECURSIVE MapOfSegments(_)
MapOfSegments(s) ==
    IF s = <<>> THEN EmptyMap
    ELSE LET rest == MapOfSegments(SubSeq(s, 1, Len(s) - 1))
             g == s[Len(s)]
         IN  (g[1] :> g[2]) @@ rest

\* The outcomes the external parser may have on a string: the map, or (for a
\* string that is not empty) a failure.
ParserOutcomes(s) ==
    {[ok |-> TRUE, map |-> MapOfSegments(s)]}
    \cup (IF s = <<>> THEN {} ELSE {[ok |-> FALSE, map |-> EmptyMap]})

\* Faulty variant: the parsed map dropped, an empty map forwarded instead.
CreateStringArgs_dropped(parsedMap) == CreateArgs(EmptyMap)

\* create(const std::string&): the <<id, key>> that reach create(id, key), from
\* the map the parser returned (the local ParamMap params).
CreateStringArgs(parsedMap) == CreateArgs(parsedMap)

\* --------------------------------------------------------------- Init
Init ==
    /\ dataObjs = <<>>
    /\ providers = <<>>
    /\ slots = [s \in Slots |-> Null]
    /\ params = EmptyMap
    /\ nalloc = 0
    /\ built = <<>>
    /\ origin = <<>>
    /\ filledBy = [s \in Slots |-> Null]
    /\ names = {}
    /\ mapHist = NoHist
    /\ lastCall = [op |-> "none"]

\* ------------------------------------------------------------ actions
\* The allocation of create(id, key): a new AuthDataTuya and a new AuthTuya
\* wrapping it; the local handle authDataTuya dies at return.
Allocate(id, key) ==
    LET n == nalloc + 1
        provs == providers @@ (n :> AuthTuya(n))
    IN  /\ nalloc' = n
        /\ providers' = provs
        /\ dataObjs' = Release(dataObjs @@ (n :> AuthDataTuya(id, key)), provs, slots)
        /\ built' = built @@ (n :> n)
        /\ origin' = origin @@ (n :> <<id, key>>)

\* AuthTuya::create(id, key)
Create(id, key) ==
    /\ nalloc < MaxAlloc
    /\ Allocate(id, key)
    /\ lastCall' = [op |-> "create", id |-> id, key |-> key, ret |-> nalloc + 1]
    /\ UNCHANGED <<slots, params, filledBy, names, mapHist>>

\* AuthTuya::create(ParamMap& params) on the caller's map
CreateFromMap ==
    /\ nalloc < MaxAlloc
    /\ Allocate(CreateArgs(params)[1], CreateArgs(params)[2])
    /\ params' = ParamsAfterCreate(params)
    /\ mapHist' = [known |-> TRUE, map |-> params',
                   creds |-> <<getTuyaAccessId(dataObjs'[nalloc + 1]),
                               getTuyaAccessKey(dataObjs'[nalloc + 1])>>]
    /\ lastCall' = [op |-> "create_map", pre |-> params, post |-> params',
                    prev |-> mapHist, raised |-> FALSE, ret |-> nalloc + 1]
    /\ UNCHANGED <<slots, filledBy, names>>

\* AuthTuya::create(const std::string& authParamsString)
CreateFromString(s) ==
    /\ nalloc < MaxAlloc
    /\ \E parsed \in ParserOutcomes(s) :
          IF parsed.ok
          THEN /\ Allocate(CreateStringArgs(parsed.map)[1],
                           CreateStringArgs(parsed.map)[2])
               /\ lastCall' = [op |-> "create_string", arg |-> s, parsed |-> parsed,
                               raised |-> FALSE, ret |-> nalloc + 1]
          ELSE /\ lastCall' = [op |-> "create_string", arg |-> s, parsed |-> parsed,
                               raised |-> TRUE, ret |-> Null]
               /\ UNCHANGED <<dataObjs, providers, nalloc, built, origin>>
    /\ UNCHANGED <<slots, params, filledBy, names, mapHist>>

\* The caller assigns its ParamMap variable.
SetParams(m) ==
    /\ m # params
    /\ params' = m
    /\ mapHist' = NoHist
    /\ lastCall' = [op |-> "set_params"]
    /\ UNCHANGED <<dataObjs, providers, slots, nalloc, built, origin, filledBy, names>>

\* A call of one of the holder's accessors on a live holder h.
Accessor(h, name, result) ==
    /\ lastCall' = [op |-> name, target |-> h, ret |-> result]
    /\ UNCHANGED <<dataObjs, providers, slots, params, nalloc, built, origin,
                   filledBy, names, mapHist>>

CallHasDataForHttp(h) == Accessor(h, "hasDataForHttp", hasDataForHttp(dataObjs[h]))

CallHasDataForTuya(h) == Accessor(h, "hasDataForTuya", hasDataForTuya(dataObjs[h]))

CallHasDataFromCommand(h) ==
    Accessor(h, "hasDataFromCommand", hasDataFromCommand(dataObjs[h]))

CallGetTuyaAccessId(h) == Accessor(h, "getTuyaAccessId", getTuyaAccessId(dataObjs[h]))

CallGetTuyaAccessKey(h) ==
    Accessor(h, "getTuyaAccessKey", getTuyaAccessKey(dataObjs[h]))

CallGetCommandData(h) == Accessor(h, "getCommandData", getCommandData(dataObjs[h]))

\* The holder's member function AuthenticationDataProvider(id, key)
CallAuthenticationDataProvider(h, id, key) ==
    /\ dataObjs' = [dataObjs EXCEPT ![h] = AuthenticationDataProvider(@, id, key)]
    /\ lastCall' = [op |-> "AuthenticationDataProvider", target |-> h,
                    id |-> id, key |-> key]
    /\ UNCHANGED <<providers, slots, params, nalloc, built, origin, filledBy, names,
                   mapHist>>

\* AuthTuya::getAuthMethodName on a live provider
CallGetAuthMethodName(p) ==
    /\ names' = names \cup {getAuthMethodName(providers[p])}
    /\ lastCall' = [op |-> "getAuthMethodName", target |-> p,
                    ret |-> getAuthMethodName(providers[p])]
    /\ UNCHANGED <<dataObjs, providers, slots, params, nalloc, built, origin, filledBy,
                   mapHist>>

\* AuthTuya::getAuthData(authDataContent) on a live provider, into slot s; the
\* handle the slot held before is dropped by the assignment.
CallGetAuthData(p, s) ==
    LET r == getAuthData(providers[p])
        sl == [slots EXCEPT ![s] = r.authDataContent]
    IN  /\ slots' = sl
        /\ dataObjs' = Release(dataObjs, providers, sl)
        /\ filledBy' = [filledBy EXCEPT ![s] = p]
        /\ lastCall' = [op |-> "getAuthData", target |-> p, slot |-> s,
                        ret |-> r.result]
        /\ UNCHANGED <<providers, params, nalloc, built, origin, names, mapHist>>

\* The caller resets one of its output slots.
ResetSlot(s) ==
    /\ slots[s] # Null
    /\ slots' = [slots EXCEPT ![s] = Null]
    /\ dataObjs' = Release(dataObjs, providers, slots')
    /\ filledBy' = [filledBy EXCEPT ![s] = Null]
    /\ lastCall' = [op |-> "reset_slot", slot |-> s]
    /\ UNCHANGED <<providers, params, nalloc, built, origin, names, mapHist>>

\* AuthTuya::~AuthTuya, run when the caller drops the provider: the member
\* authDataTuya_ is destroyed with it.
DestroyProvider(p) ==
    /\ providers' = [q \in DOMAIN providers \ {p} |-> providers[q]]
    /\ dataObjs' = Release(dataObjs, providers', slots)
    /\ lastCall' = [op |-> "destroy", target |-> p]
    /\ UNCHANGED <<slots, params, nalloc, built, origin, filledBy, names, mapHist>>

HolderCalls ==
    \E h \in DOMAIN dataObjs :
        \/ CallHasDataForHttp(h)
        \/ CallHasDataForTuya(h)
        \/ CallHasDataFromCommand(h)
        \/ CallGetTuyaAccessId(h)
        \/ CallGetTuyaAccessKey(h)
        \/ CallGetCommandData(h)
        \/ \E id \in AccessIds, key \in AccessKeys :
               CallAuthenticationDataProvider(h, id, key)

ProviderCalls ==
    \E p \in DOMAIN providers :
        \/ CallGetAuthMethodName(p)
        \/ \E s \in Slots : CallGetAuthData(p, s)
        \/ DestroyProvider(p)

Next ==
    \/ \E id \in AccessIds, key \in AccessKeys : Create(id, key)
    \/ HolderCalls
    \/ ProviderCalls
    \/ \E s \in Slots : ResetSlot(s)

Spec == Init /\ [][Next]_vars

NextFactory ==
    \/ \E m \in ParamMaps : SetParams(m)
    \/ CreateFromMap
    \/ \E s \in ParamStrings : CreateFromString(s)
    \/ \E h \in DOMAIN dataObjs : CallGetTuyaAccessId(h) \/ CallGetTuyaAccessKey(h)

SpecFactory == Init /\ [][NextFactory]_vars

\* ------------------------------------------------------------- claims
\* Shorthands of the formulas below.
Allocated == 1 .. nalloc
Destroyed == Allocated \ DOMAIN providers
Lookup(m, k) == IF k \in DOMAIN m THEN m[k] ELSE ""
HolderOf(p) == dataObjs[providers[p].authDataTuya_]

\* C1: the holder a caller obtains by getAuthData from a provider made by
\* create(id, key) reports exactly that id as getTuyaAccessId() and exactly that
\* key as getTuyaAccessKey(), right after getAuthData and after any further calls.
C1_RoundTrip ==
    /\ \A s \in Slots :
          slots[s] # Null =>
             /\ slots[s] \in DOMAIN dataObjs
             /\ getTuyaAccessId(dataObjs[slots[s]]) = origin[filledBy[s]][1]
             /\ getTuyaAccessKey(dataObjs[slots[s]]) = origin[filledBy[s]][2]
    /\ \A s \in Slots :
          (lastCall.op = "getTuyaAccessId" /\ slots[s] = lastCall.target) =>
             lastCall.ret = origin[filledBy[s]][1]
    /\ \A s \in Slots :
          (lastCall.op = "getTuyaAccessKey" /\ slots[s] = lastCall.target) =>
             lastCall.ret = origin[filledBy[s]][2]

C1_Witness ==
    /\ lastCall.op = "getTuyaAccessKey"
    /\ lastCall.ret = "xyz"
    /\ \E s \in Slots :
          /\ slots[s] = lastCall.target
          /\ origin[filledBy[s]] = <<"abc", "xyz">>
          /\ getTuyaAccessId(dataObjs[slots[s]]) = "abc"

\* C2: create(params) does not raise, and the new provider's holder has as access
\* id the map's value for "accessId" and as access key the map's value for
\* "accessKey", the empty string standing for a key the map did not have.
C2_MapDefaults ==
    lastCall.op = "create_map" =>
       /\ ~lastCall.raised
       /\ lastCall.ret \in DOMAIN providers
       /\ providers[lastCall.ret].authDataTuya_ \in DOMAIN dataObjs
       /\ getTuyaAccessId(HolderOf(lastCall.ret)) = Lookup(lastCall.pre, "accessId")
       /\ getTuyaAccessKey(HolderOf(lastCall.ret)) = Lookup(lastCall.pre, "accessKey")

C2_Witness ==
    /\ lastCall.op = "create_map"
    /\ lastCall.pre = ("accessId" :> "abc")
    /\ getTuyaAccessId(HolderOf(lastCall.ret)) = "abc"
    /\ getTuyaAccessKey(HolderOf(lastCall.ret)) = ""

\* C3: every getAuthData call returns ResultOk and leaves in the output slot the
\* holder the provider was constructed with, so all slots filled from one
\* provider hold the same holder.
C3_GetAuthData ==
    /\ lastCall.op = "getAuthData" =>
          /\ lastCall.ret = "ResultOk"
          /\ slots[lastCall.slot] = built[lastCall.target]
    /\ \A s \in Slots : filledBy[s] # Null => slots[s] = built[filledBy[s]]
    /\ \A s1, s2 \in Slots :
          (filledBy[s1] # Null /\ filledBy[s1] = filledBy[s2]) => slots[s1] = slots[s2]

C3_Witness ==
    /\ lastCall.op = "getAuthData"
    /\ nalloc = 2
    /\ \A s \in Slots : filledBy[s] = 2 /\ slots[s] = built[2]

\* C4: getAuthMethodName() never returns the empty string, and every call, on
\* whichever provider and whatever its credentials, returns the same string.
C4_MethodName ==
    /\ "" \notin names
    /\ Cardinality(names) <= 1
    /\ lastCall.op = "getAuthMethodName" => lastCall.ret \in names
    /\ \A p, q \in DOMAIN providers :
          /\ getAuthMethodName(providers[p]) = getAuthMethodName(providers[q])
          /\ getAuthMethodName(providers[p]) # ""
          /\ names # {} => getAuthMethodName(providers[p]) \in names

C4_Witness ==
    /\ lastCall.op = "getAuthMethodName"
    /\ lastCall.target = 2
    /\ origin[1] = <<"", "">>
    /\ origin[2] = <<"abc", "xyz">>
    /\ DOMAIN providers = {1, 2}

\* C5: on every live holder hasDataForTuya() is true and hasDataForHttp() is
\* false, and every call of either has returned that value.
C5_Flags ==
    /\ \A h \in DOMAIN dataObjs :
          hasDataForTuya(dataObjs[h]) = TRUE /\ hasDataForHttp(dataObjs[h]) = FALSE
    /\ lastCall.op = "hasDataForTuya" => lastCall.ret = TRUE
    /\ lastCall.op = "hasDataForHttp" => lastCall.ret = FALSE

C5_Witness ==
    /\ lastCall.op = "hasDataForHttp"
    /\ lastCall.ret = FALSE
    /\ origin[lastCall.target] = <<"abc", "xyz">>
    /\ Cardinality(DOMAIN dataObjs) = 2

\* C6: getCommandData() of every live holder is the literal
\* {"username":"","password":""}, whatever id and key the holder was built from.
C6_CommandData ==
    /\ \A h \in DOMAIN dataObjs :
          getCommandData(dataObjs[h]) = "{\"username\":\"\",\"password\":\"\"}"
    /\ lastCall.op = "getCommandData" =>
          lastCall.ret = "{\"username\":\"\",\"password\":\"\"}"

C6_Witness ==
    /\ lastCall.op = "getCommandData"
    /\ origin[lastCall.target] = <<"abc", "xyz">>
    /\ getTuyaAccessId(dataObjs[lastCall.target]) = "abc"
    /\ lastCall.ret = "{\"username\":\"\",\"password\":\"\"}"

\* C7: create(paramString) raises exactly when the parser failed and then makes
\* no provider; otherwise its provider's holder has the credentials create(params)
\* gives for the parser's map: the map's values for "accessId" and "accessKey",
\* the empty string for an absent key, so both are empty for the empty string.
C7_StringCreate ==
    lastCall.op = "create_string" =>
       /\ lastCall.raised = ~lastCall.parsed.ok
       /\ lastCall.raised => lastCall.ret = Null
       /\ lastCall.arg = <<>> => ~lastCall.raised
       /\ ~lastCall.raised =>
             /\ lastCall.ret \in DOMAIN providers
             /\ providers[lastCall.ret].authDataTuya_ \in DOMAIN dataObjs
             /\ getTuyaAccessId(HolderOf(lastCall.ret))
                   = Lookup(lastCall.parsed.map, "accessId")
             /\ getTuyaAccessKey(HolderOf(lastCall.ret))
                   = Lookup(lastCall.parsed.map, "accessKey")
             /\ lastCall.arg = <<>> =>
                   /\ getTuyaAccessId(HolderOf(lastCall.ret)) = ""
                   /\ getTuyaAccessKey(HolderOf(lastCall.ret)) = ""

C7_Witness ==
    /\ lastCall.op = "create_string"
    /\ lastCall.arg = <<<<"accessKey", "xyz">>, <<"accessId", "abc">>>>
    /\ ~lastCall.raised
    /\ getTuyaAccessId(HolderOf(lastCall.ret)) = "abc"
    /\ getTuyaAccessKey(HolderOf(lastCall.ret)) = "xyz"

\* C8 as stated: once a provider has been destroyed, the holder it was
\* constructed with no longer exists.
C8_DestroyedWithProvider ==
    \A p \in Destroyed : built[p] \notin DOMAIN dataObjs

\* C8, amended: a holder exists exactly as long as its provider is alive or a
\* caller's slot still holds the handle getAuthData put there; it is destroyed
\* with the provider only when no such slot holds it.
C8_LivesWhileHeld ==
    \A p \in Allocated :
        built[p] \in DOMAIN dataObjs
           <=> (p \in DOMAIN providers \/ \E s \in Slots : slots[s] = built[p])

C8_Witness ==
    /\ lastCall.op = "destroy"
    /\ \E p, q \in Destroyed :
          /\ built[p] \in DOMAIN dataObjs
          /\ built[q] \notin DOMAIN dataObjs

\* C9: no operation on a holder or a provider, and no creation or destruction of
\* another provider, changes the access id, access key or command payload of a
\* holder that exists before and after it.
C9_FieldsImmutable ==
    [][\A h \in DOMAIN dataObjs \cap DOMAIN dataObjs' : dataObjs'[h] = dataObjs[h]]_vars

C9_Witness ==
    /\ lastCall.op = "AuthenticationDataProvider"
    /\ lastCall.id # getTuyaAccessId(dataObjs[lastCall.target])
    /\ lastCall.key # getTuyaAccessKey(dataObjs[lastCall.target])
    /\ dataObjs[lastCall.target] = AuthDataTuya(origin[lastCall.target][1],
                                                origin[lastCall.target][2])
    /\ Cardinality(DOMAIN dataObjs) = 2

\* C10: create(params) leaves in the caller's map every entry it had, adds ""
\* for each of "accessId" and "accessKey" that was missing and nothing else; a
\* second create(params) on the same map does not change it and gives the same
\* credentials.
C10_MapFrame ==
    lastCall.op = "create_map" =>
       /\ DOMAIN lastCall.post = DOMAIN lastCall.pre \cup {"accessId", "accessKey"}
       /\ \A k \in DOMAIN lastCall.pre : lastCall.post[k] = lastCall.pre[k]
       /\ \A k \in DOMAIN lastCall.post \ DOMAIN lastCall.pre : lastCall.post[k] = ""
       /\ params = lastCall.post
       /\ lastCall.prev.known =>
             /\ lastCall.pre = lastCall.prev.map
             /\ lastCall.post = lastCall.pre
             /\ getTuyaAccessId(HolderOf(lastCall.ret)) = lastCall.prev.creds[1]
             /\ getTuyaAccessKey(HolderOf(lastCall.ret)) = lastCall.prev.creds[2]

C10_Witness ==
    /\ lastCall.op = "create_map"
    /\ lastCall.prev.known
    /\ lastCall.post = ("accessId" :> "" @@ "accessKey" :> "xyz" @@ "other" :> "abc")
    /\ nalloc = 2
    /\ origin[1] = <<"", "xyz">>

====
